---- MODULE Spec2Model ----
(***************************************************************************)
(* Model of src/src/anon.rs: dicom_anon (the dispatcher over the           *)
(* discovered files, the run counters and the WaitGroup barrier) and       *)
(* anon_each_dcm_file (the per-file pipeline with the shared PatientID ->  *)
(* AnonID map and the write task it hands to rayon::spawn).                *)
(*                                                                         *)
(* One process per discovered file runs the body of the par_iter closure;  *)
(* one deferred task per successful pipeline runs the rayon::spawn         *)
(* closure; the main thread runs what follows the parallel loop.           *)
(***************************************************************************)
EXTENDS Integers, Sequences, FiniteSets, TLC

\* Number of files preprocessing_setup discovered (all_files, total_len).
NumFiles == 2

Files == 1..NumFiles

total_len == NumFiles

\* Outcomes of dcm_obj.element_by_name("PatientID")?.to_str()?: the element
\* is absent (Err), or present with its value as a string, possibly empty.
Absent == "<absent>"

PatientIDs == {"", "P001"}

\* Values of the anon_prefix argument.
Prefixes == {"", "STUDY1"}

NoOwner == 0

NoValue == "<none>"

NoPath == <<"", 0>>

\* Paths are <<name, n>>: n = 0 is the path format!("{}/{}", dir_path,
\* file_name) itself, n > 0 its n-th variant. CandidatePaths are the paths
\* the naming routines derive from the tag values of the input records.
CandidatePaths == {<<"ANON/a.dcm", 0>>, <<"ANON/b.dcm", 0>>}

VARIABLES
    anon_prefix,      \* the anon_prefix argument of dicom_anon
    pc,               \* per file: position of the par_iter closure
    task,             \* per file: position of the rayon::spawn closure
    patient_id,       \* per file: local patient_id (line 93)
    found,            \* per file: whether map.get(&patient_id) was Some (line 95)
    patient_anon_id,  \* per file: local patient_anon_id (line 107)
    result,           \* per file: what anon_each_dcm_file returned
    candidate,        \* per file: path derived from dicom_tags_values
    full_path,        \* per file: full_path of the write task (line 120)
    anon_id_tracker,  \* the shared HashMap<String, String>
    mapLock,          \* owner of the anon_id_tracker mutex
    nextId,           \* number of gen_id() calls so far
    failed_case,      \* the failed_case counter
    failedLock,       \* owner of the failed_case mutex
    failedPoisoned,   \* whether the failed_case mutex is poisoned
    non_dcm_cases,    \* the non_dcm_cases counter
    nonDcmLock,       \* owner of the non_dcm_cases mutex
    wg,               \* files whose WaitGroup clone is alive
    pb,               \* position of the progress bar
    mainPc,           \* position of the main thread in dicom_anon
    reported,         \* what print_status was given, or <<>>
    aborted,          \* the process was aborted by a panicking spawned task
    fs,               \* destination tree: the paths at which a file exists
    copied,           \* files copied by copy_non_dicom_files
    quarantined,      \* files copied by failed_case_copy
    mask_pc,          \* position in a call of dicom_anon_date_time
    dcm_obj,                  \* its argument (line 131)
    date_deleted_dcm_obj,     \* line 148
    time_deleted_dcm_obj,     \* line 149
    datetime_deleted_dcm_obj  \* lines 150-161, the record returned

runVars == <<anon_prefix, pc, task, patient_id, found, patient_anon_id,
             result, candidate, full_path, anon_id_tracker, mapLock,
             nextId, failed_case, failedLock, failedPoisoned, non_dcm_cases,
             nonDcmLock, wg, pb, mainPc, reported, aborted, fs, copied,
             quarantined>>

maskVars == <<mask_pc, dcm_obj, date_deleted_dcm_obj, time_deleted_dcm_obj,
              datetime_deleted_dcm_obj>>

vars == <<runVars, maskVars>>

fileVars == <<patient_id, found, patient_anon_id, candidate>>
mapVars == <<anon_id_tracker, mapLock, nextId>>
failedVars == <<failed_case, failedLock, failedPoisoned>>
nonDcmVars == <<non_dcm_cases, nonDcmLock>>
taskVars == <<task, full_path, fs>>
mainVars == <<mainPc, reported, aborted, anon_prefix>>

\* dicom_anon after lines 35-39.
RunInit ==
    /\ anon_prefix \in Prefixes
    /\ pc = [f \in Files |-> "open"]
    /\ task = [f \in Files |-> "none"]
    /\ patient_id = [f \in Files |-> NoValue]
    /\ found = [f \in Files |-> FALSE]
    /\ patient_anon_id = [f \in Files |-> NoValue]
    /\ result = [f \in Files |-> "none"]
    /\ candidate = [f \in Files |-> NoPath]
    /\ full_path = [f \in Files |-> NoPath]
    /\ anon_id_tracker = <<>>
    /\ mapLock = NoOwner
    /\ nextId = 0
    /\ failed_case = 0
    /\ failedLock = NoOwner
    /\ failedPoisoned = FALSE
    /\ non_dcm_cases = 0
    /\ nonDcmLock = NoOwner
    /\ wg = {}
    /\ pb = 0
    /\ mainPc = "dispatch"
    /\ reported = <<>>
    /\ aborted = FALSE
    /\ fs = {}
    /\ copied = {}
    /\ quarantined = {}

NoRecord == <<>>

\* The run as a whole: the masking of a record is the step Mask of a file;
\* the call of dicom_anon_date_time is followed on its own under MaskSpec.
Init ==
    /\ RunInit
    /\ mask_pc = "idle"
    /\ dcm_obj = NoRecord
    /\ date_deleted_dcm_obj = NoRecord
    /\ time_deleted_dcm_obj = NoRecord
    /\ datetime_deleted_dcm_obj = NoRecord

\* The process is alive and the parallel loop is running.
Running == ~aborted /\ mainPc = "dispatch"

(***************************************************************************)
(* dicom_anon: the body of the par_iter closure, lines 45-73.              *)
(***************************************************************************)

\* Line 46: open_file(working_path.path()). On Ok the arguments of the call
\* are evaluated, wg.clone() (line 53) among them, and the pipeline is
\* entered; on Err the else branch (line 65) is taken.
OpenFile(f) ==
    /\ Running
    /\ pc[f] = "open"
    /\ \E parsed \in BOOLEAN :
          IF parsed
          THEN /\ wg' = wg \cup {f}
               /\ pc' = [pc EXCEPT ![f] = "extract"]
          ELSE /\ wg' = wg
               /\ pc' = [pc EXCEPT ![f] = "nd_lock"]
    /\ UNCHANGED <<maskVars, fileVars, result, mapVars, failedVars,
                   nonDcmVars, pb, taskVars, mainVars, copied, quarantined>>

\* The closure ends without advancing the progress bar.
PbInc_Skip(f) ==
    /\ pb' = pb
    /\ pc' = [pc EXCEPT ![f] = "done"]

\* Line 72: pb.inc(1), the end of the closure for this file.
PbInc(f) ==
    /\ pb' = pb + 1
    /\ pc' = [pc EXCEPT ![f] = "done"]

(***************************************************************************)
(* anon_each_dcm_file, lines 86-128.                                       *)
(***************************************************************************)

\* The MutexGuard outlives the Err return: the dispatcher's error closure
\* runs with the map still locked by this worker.
ReturnErr_KeepsMapLock(f) ==
    /\ result' = [result EXCEPT ![f] = "err"]
    /\ mapLock' = mapLock
    /\ wg' = wg \ {f}
    /\ pc' = [pc EXCEPT ![f] = "fc_lock"]

\* The WaitGroup clone is not dropped on the Err return.
ReturnErr_KeepsClone(f) ==
    /\ result' = [result EXCEPT ![f] = "err"]
    /\ mapLock' = IF mapLock = f THEN NoOwner ELSE mapLock
    /\ wg' = wg
    /\ pc' = [pc EXCEPT ![f] = "fc_lock"]

\* A `?` of the pipeline returns Err: the locals are dropped (the MutexGuard
\* `map` if it was taken, the WaitGroup `wg`) and the dispatcher's
\* unwrap_or_else closure (line 55) runs next. Nothing was spawned.
ReturnErr(f) ==
    /\ result' = [result EXCEPT ![f] = "err"]
    /\ mapLock' = IF mapLock = f THEN NoOwner ELSE mapLock
    /\ wg' = wg \ {f}
    /\ pc' = [pc EXCEPT ![f] = "fc_lock"]

\* Line 93: element_by_name("PatientID")?.to_str()?.to_string(). A missing
\* element is an Err; a present element yields its value, whatever it is.
\* patient_id records the outcome, Absent standing for the Err.
ExtractId(f) ==
    /\ Running
    /\ pc[f] = "extract"
    /\ \E v \in PatientIDs \cup {Absent} :
          /\ patient_id' = [patient_id EXCEPT ![f] = v]
          /\ IF v = Absent
             THEN ReturnErr(f)
             ELSE /\ pc' = [pc EXCEPT ![f] = "map_lock"]
                  /\ UNCHANGED <<result, mapLock, wg>>
    /\ UNCHANGED <<maskVars, found, patient_anon_id, candidate, anon_id_tracker,
                   nextId, failedVars, nonDcmVars, pb, taskVars, mainVars,
                   copied, quarantined>>

\* The mutex does not exclude: lock() returns at once.
MapLockFree_NoExclusion == TRUE

\* The anon_id_tracker mutex can be taken.
MapLockFree == mapLock = NoOwner

\* Lines 94-95: map_clone.lock(), then match map.get(&patient_id). No holder
\* of this mutex panics, so it is never poisoned and the expect never fires.
MapLock(f) ==
    /\ Running
    /\ pc[f] = "map_lock"
    /\ MapLockFree
    /\ mapLock' = f
    /\ found' = [found EXCEPT ![f] = patient_id[f] \in DOMAIN anon_id_tracker]
    /\ pc' = [pc EXCEPT ![f] = "map_insert"]
    /\ UNCHANGED <<maskVars, patient_id, patient_anon_id, candidate, result,
                   anon_id_tracker, nextId, failedVars, nonDcmVars, wg, pb,
                   taskVars, mainVars, copied, quarantined>>

\* gen_id() of dcmrig_rs: a token no earlier call returned. n is the number
\* of calls made before this one.
gen_id(n) == "id" \o ToString(n)

\* The generated token is left out of the formatted anon_id.
NewAnonId_PrefixOnly(prefix, n) ==
    IF Len(prefix) = 0 THEN gen_id(n) ELSE prefix \o "_"

\* The format! of line 101 is used whatever the prefix is.
NewAnonId_AlwaysSeparator(prefix, n) == prefix \o "_" \o gen_id(n)

\* Lines 98-102: the new anon_id.
NewAnonId(prefix, n) ==
    IF Len(prefix) = 0 THEN gen_id(n) ELSE prefix \o "_" \o gen_id(n)

\* HashMap::insert: the value of key k becomes v, whether k was present or not.
Insert(m, k, v) == [x \in DOMAIN m \cup {k} |-> IF x = k THEN v ELSE m[x]]

\* The insert of line 103 is done on Some as well as on None.
MapInsert_AlwaysInsert(f) ==
    /\ Running
    /\ pc[f] = "map_insert"
    /\ anon_id_tracker' =
          Insert(anon_id_tracker, patient_id[f], NewAnonId(anon_prefix, nextId))
    /\ nextId' = nextId + 1
    /\ patient_anon_id' = [patient_anon_id EXCEPT ![f] = anon_id_tracker'[patient_id[f]]]
    /\ found' = [found EXCEPT ![f] = FALSE]
    /\ pc' = [pc EXCEPT ![f] = "rewrite"]
    /\ UNCHANGED <<maskVars, patient_id, candidate, result, mapLock, failedVars,
                   nonDcmVars, wg, pb, taskVars, mainVars, copied, quarantined>>

\* Lines 96-110: on None the new anon_id is inserted (lines 97-105); then
\* patient_anon_id is read back from the map (lines 107-110).
MapInsert(f) ==
    /\ Running
    /\ pc[f] = "map_insert"
    /\ IF found[f]
       THEN UNCHANGED <<anon_id_tracker, nextId>>
       ELSE /\ anon_id_tracker' =
                  Insert(anon_id_tracker, patient_id[f], NewAnonId(anon_prefix, nextId))
            /\ nextId' = nextId + 1
    /\ patient_anon_id' = [patient_anon_id EXCEPT ![f] = anon_id_tracker'[patient_id[f]]]
    /\ found' = [found EXCEPT ![f] = FALSE]
    /\ pc' = [pc EXCEPT ![f] = "rewrite"]
    /\ UNCHANGED <<maskVars, patient_id, candidate, result, mapLock, failedVars,
                   nonDcmVars, wg, pb, taskVars, mainVars, copied, quarantined>>

\* Line 111: mask_tags_with_id(dcm_obj.clone(), patient_anon_id)?.
Rewrite(f) ==
    /\ Running
    /\ pc[f] = "rewrite"
    /\ \E ok \in BOOLEAN :
          IF ok
          THEN /\ pc' = [pc EXCEPT ![f] = "mask"]
               /\ UNCHANGED <<result, mapLock, wg>>
          ELSE ReturnErr(f)
    /\ UNCHANGED <<maskVars, fileVars, anon_id_tracker, nextId, failedVars, nonDcmVars,
                   pb, taskVars, mainVars, copied, quarantined>>

\* Line 112: dicom_anon_date_time(new_dicom_object)?.
Mask(f) ==
    /\ Running
    /\ pc[f] = "mask"
    /\ \E ok \in BOOLEAN :
          IF ok
          THEN /\ pc' = [pc EXCEPT ![f] = "sanitize"]
               /\ UNCHANGED <<result, mapLock, wg>>
          ELSE ReturnErr(f)
    /\ UNCHANGED <<maskVars, fileVars, anon_id_tracker, nextId, failedVars, nonDcmVars,
                   pb, taskVars, mainVars, copied, quarantined>>

\* The write closure is spawned before the tag values are extracted, so it
\* is already scheduled when the `?` of line 113 returns the Err.
Sanitize_SpawnFirst(f) ==
    /\ Running
    /\ pc[f] = "sanitize"
    /\ \E c \in CandidatePaths : candidate' = [candidate EXCEPT ![f] = c]
    /\ task' = [task EXCEPT ![f] = "derive"]
    /\ \/ /\ result' = [result EXCEPT ![f] = "ok"]
          /\ mapLock' = NoOwner
          /\ PbInc(f)
       \/ /\ result' = [result EXCEPT ![f] = "err"]
          /\ mapLock' = NoOwner
          /\ pc' = [pc EXCEPT ![f] = "fc_lock"]
          /\ pb' = pb
    /\ UNCHANGED <<maskVars, patient_id, found, patient_anon_id, anon_id_tracker, nextId,
                   failedVars, nonDcmVars, wg, full_path, fs, mainVars, copied,
                   quarantined>>

\* Line 113: get_sanitized_tag_values(&new_dicom_object)?. The tag values
\* fix the candidate output path the write task will derive.
Sanitize(f) ==
    /\ Running
    /\ pc[f] = "sanitize"
    /\ \/ /\ \E c \in CandidatePaths : candidate' = [candidate EXCEPT ![f] = c]
          /\ pc' = [pc EXCEPT ![f] = "spawn"]
          /\ UNCHANGED <<result, mapLock, wg>>
       \/ /\ ReturnErr(f)
          /\ UNCHANGED candidate
    /\ UNCHANGED <<maskVars, patient_id, found, patient_anon_id, anon_id_tracker,
                   nextId, failedVars, nonDcmVars, pb, taskVars, mainVars,
                   copied, quarantined>>

\* Lines 114-127 and 72: rayon::spawn of the write closure, which owns wg
\* from here on, then Ok(()): the MutexGuard `map` is dropped at the return,
\* unwrap_or_else does nothing on Ok and the dispatcher ends this file.
Spawn(f) ==
    /\ Running
    /\ pc[f] = "spawn"
    /\ task' = [task EXCEPT ![f] = "derive"]
    /\ result' = [result EXCEPT ![f] = "ok"]
    /\ mapLock' = NoOwner
    /\ PbInc(f)
    /\ UNCHANGED <<maskVars, fileVars, anon_id_tracker, nextId, failedVars,
                   nonDcmVars, wg, full_path, fs, mainVars, copied,
                   quarantined>>

(***************************************************************************)
(* dicom_anon: the unwrap_or_else closure (lines 55-64), the else branch   *)
(* (lines 65-71) and pb.inc (line 72).                                     *)
(***************************************************************************)

\* Lines 56-57: failed_case.lock().expect(..), then *map += 1. A poisoned
\* mutex makes lock() return Err and the expect panics; otherwise the worker
\* waits for the lock.
FcLock(f) ==
    /\ Running
    /\ pc[f] = "fc_lock"
    /\ IF failedPoisoned
       THEN /\ pc' = [pc EXCEPT ![f] = "panicked"]
            /\ UNCHANGED <<failedLock, failed_case>>
       ELSE /\ failedLock = NoOwner
            /\ failedLock' = f
            /\ failed_case' = failed_case + 1
            /\ pc' = [pc EXCEPT ![f] = "fc_copy"]
    /\ UNCHANGED <<maskVars, fileVars, result, mapVars, failedPoisoned, nonDcmVars, wg,
                   pb, taskVars, mainVars, copied, quarantined>>

\* Lines 62-64 and 72: failed_case_copy(..).expect(..), then the guard is
\* dropped at the end of the closure and the dispatcher ends this file. When the copy fails the expect panics while the
\* guard is held: the unwinding drops the guard and poisons the mutex.
FcCopy(f) ==
    /\ Running
    /\ pc[f] = "fc_copy"
    /\ failedLock' = NoOwner
    /\ \E ok \in BOOLEAN :
          IF ok
          THEN /\ quarantined' = quarantined \cup {f}
               /\ PbInc(f)
               /\ UNCHANGED failedPoisoned
          ELSE /\ failedPoisoned' = TRUE
               /\ pc' = [pc EXCEPT ![f] = "panicked"]
               /\ UNCHANGED <<quarantined, pb>>
    /\ UNCHANGED <<maskVars, fileVars, result, mapVars, failed_case,
                   nonDcmVars, wg, taskVars, mainVars, copied>>

\* The else branch counts on failed_case instead of non_dcm_cases.
NdLock_CountsFailed(f) ==
    /\ Running
    /\ pc[f] = "nd_lock"
    /\ nonDcmLock = NoOwner
    /\ nonDcmLock' = f
    /\ failed_case' = failed_case + 1
    /\ pc' = [pc EXCEPT ![f] = "nd_copy"]
    /\ UNCHANGED <<maskVars, fileVars, result, mapVars, failedLock, failedPoisoned,
                   non_dcm_cases, wg, pb, taskVars, mainVars, copied,
                   quarantined>>

\* The increment of line 67 is missing.
NdLock_NoIncrement(f) ==
    /\ Running
    /\ pc[f] = "nd_lock"
    /\ nonDcmLock = NoOwner
    /\ nonDcmLock' = f
    /\ non_dcm_cases' = non_dcm_cases
    /\ pc' = [pc EXCEPT ![f] = "nd_copy"]
    /\ UNCHANGED <<maskVars, fileVars, result, mapVars, failedVars, wg, pb, taskVars,
                   mainVars, copied, quarantined>>

\* Lines 66-67: non_dcm_cases.lock(), then *map += 1. No holder of this
\* mutex panics.
NdLock(f) ==
    /\ Running
    /\ pc[f] = "nd_lock"
    /\ nonDcmLock = NoOwner
    /\ nonDcmLock' = f
    /\ non_dcm_cases' = non_dcm_cases + 1
    /\ pc' = [pc EXCEPT ![f] = "nd_copy"]
    /\ UNCHANGED <<maskVars, fileVars, result, mapVars, failedVars, wg, pb, taskVars,
                   mainVars, copied, quarantined>>

\* Lines 68-72: copy_non_dicom_files(..).unwrap_or_else(error!), then the
\* guard is dropped at the end of the else block and the dispatcher ends this
\* file. A failed copy is logged and the closure goes on.
NdCopy(f) ==
    /\ Running
    /\ pc[f] = "nd_copy"
    /\ \E ok \in BOOLEAN : copied' = IF ok THEN copied \cup {f} ELSE copied
    /\ nonDcmLock' = NoOwner
    /\ PbInc(f)
    /\ UNCHANGED <<maskVars, fileVars, result, mapVars, failedVars,
                   non_dcm_cases, wg, taskVars, mainVars, quarantined>>

\* A worker panicked (lines 56, 63): the items that follow the panicking one
\* in its sequential chunk of the parallel iterator are never visited.
SkipAfterPanic(f) ==
    /\ Running
    /\ pc[f] = "open"
    /\ \E g \in Files : pc[g] = "panicked"
    /\ pc' = [pc EXCEPT ![f] = "skipped"]
    /\ UNCHANGED <<maskVars, fileVars, result, mapVars, failedVars,
                   nonDcmVars, wg, pb, taskVars, mainVars, copied, quarantined>>

(***************************************************************************)
(* anon_each_dcm_file: the closure given to rayon::spawn, lines 116-126.   *)
(* A panic of a spawned closure, with no panic handler installed on the    *)
(* pool, aborts the process.                                               *)
(***************************************************************************)

\* check_if_dup_exists of dcmrig_rs: the path itself when nothing exists
\* there, else the first variant of it at which nothing exists.
check_if_dup_exists(path, tree) ==
    IF path \notin tree
    THEN path
    ELSE <<path[1],
           CHOOSE k \in 1..(NumFiles + 1) :
              /\ <<path[1], k>> \notin tree
              /\ \A j \in 1..(k - 1) : <<path[1], j>> \in tree>>

\* Lines 117-119: generate_dicom_file_name(..).expect("msg") and
\* generate_dicom_file_path(..).expect("msg").
Derive(f) ==
    /\ ~aborted
    /\ task[f] = "derive"
    /\ \E r \in {"ok", "name", "path"} :
          IF r = "ok"
          THEN /\ task' = [task EXCEPT ![f] = "check"]
               /\ UNCHANGED aborted
          ELSE /\ task' = [task EXCEPT ![f] = "panicked_" \o r]
               /\ aborted' = TRUE
    /\ UNCHANGED <<maskVars, pc, fileVars, result, mapVars, failedVars, nonDcmVars, wg,
                   pb, full_path, fs, mainPc, reported, anon_prefix, copied,
                   quarantined>>

\* Line 120: full_path = check_if_dup_exists(format!("{}/{}", dir_path, file_name)).
CheckDup(f) ==
    /\ ~aborted
    /\ task[f] = "check"
    /\ full_path' = [full_path EXCEPT ![f] = check_if_dup_exists(candidate[f], fs)]
    /\ task' = [task EXCEPT ![f] = "write"]
    /\ UNCHANGED <<maskVars, pc, fileVars, result, mapVars, failedVars,
                   nonDcmVars, wg, pb, fs, mainVars, copied, quarantined>>

\* Lines 122-125: write_to_file(full_path).expect(..) creates or truncates
\* the file at full_path; then drop(wg).
WriteToFile(f) ==
    /\ ~aborted
    /\ task[f] = "write"
    /\ \E ok \in BOOLEAN :
          IF ok
          THEN /\ fs' = fs \cup {full_path[f]}
               /\ wg' = wg \ {f}
               /\ task' = [task EXCEPT ![f] = "finished"]
               /\ UNCHANGED aborted
          ELSE /\ task' = [task EXCEPT ![f] = "panicked_write"]
               /\ aborted' = TRUE
               /\ UNCHANGED <<fs, wg>>
    /\ UNCHANGED <<maskVars, pc, fileVars, result, mapVars, failedVars, nonDcmVars, pb,
                   full_path, mainPc, reported, anon_prefix, copied,
                   quarantined>>

(***************************************************************************)
(* dicom_anon: the main thread after the parallel loop, lines 74-83.       *)
(***************************************************************************)

\* The for_each returns once every item was handled; pb.finish() (line 74).
Finish ==
    /\ Running
    /\ \A f \in Files : pc[f] = "done"
    /\ mainPc' = "report"
    /\ UNCHANGED <<maskVars, pc, fileVars, result, mapVars, failedVars,
                   nonDcmVars, wg, pb, taskVars, reported, aborted,
                   anon_prefix, copied, quarantined>>

\* A worker panicked: once the loop has no item running, for_each resumes
\* the panic on the main thread and dicom_anon unwinds without returning.
Unwind ==
    /\ Running
    /\ \A f \in Files : pc[f] \in {"done", "panicked", "skipped"}
    /\ \E f \in Files : pc[f] = "panicked"
    /\ mainPc' = "unwound"
    /\ UNCHANGED <<maskVars, pc, fileVars, result, mapVars, failedVars,
                   nonDcmVars, wg, pb, taskVars, reported, aborted,
                   anon_prefix, copied, quarantined>>

\* Lines 75-80: print_status(total_len, *failed_case.lock(), *non_dcm_cases.lock(),
\* "Anon")?. Both locks are free by now and released at the end of the
\* statement; an Err of print_status is returned by dicom_anon.
PrintStatus ==
    /\ ~aborted
    /\ mainPc = "report"
    /\ reported' = <<total_len, failed_case, non_dcm_cases>>
    /\ \E ok \in BOOLEAN : mainPc' = IF ok THEN "wait" ELSE "returned_err"
    /\ UNCHANGED <<maskVars, pc, fileVars, result, mapVars, failedVars,
                   nonDcmVars, wg, pb, taskVars, aborted, anon_prefix, copied,
                   quarantined>>

\* wait() does not wait for the clones.
WaitReturns_NoWait == TRUE

\* WaitGroup::wait returns when every clone has been dropped.
WaitReturns == wg = {}

\* Line 81: wg.wait().
Wait ==
    /\ ~aborted
    /\ mainPc = "wait"
    /\ WaitReturns
    /\ mainPc' = "complete"
    /\ UNCHANGED <<maskVars, pc, fileVars, result, mapVars, failedVars,
                   nonDcmVars, wg, pb, taskVars, reported, aborted,
                   anon_prefix, copied, quarantined>>

\* Lines 82-83: info!("DICOM Anon complete!"); Ok(()).
Complete ==
    /\ ~aborted
    /\ mainPc = "complete"
    /\ mainPc' = "returned_ok"
    /\ UNCHANGED <<maskVars, pc, fileVars, result, mapVars, failedVars,
                   nonDcmVars, wg, pb, taskVars, reported, aborted,
                   anon_prefix, copied, quarantined>>

Next ==
    \/ \E f \in Files : OpenFile(f)
    \/ \E f \in Files : ExtractId(f)
    \/ \E f \in Files : MapLock(f)
    \/ \E f \in Files : MapInsert(f)
    \/ \E f \in Files : Rewrite(f)
    \/ \E f \in Files : Mask(f)
    \/ \E f \in Files : Sanitize(f)
    \/ \E f \in Files : Spawn(f)
    \/ \E f \in Files : FcLock(f)
    \/ \E f \in Files : FcCopy(f)
    \/ \E f \in Files : NdLock(f)
    \/ \E f \in Files : NdCopy(f)
    \/ \E f \in Files : SkipAfterPanic(f)
    \/ \E f \in Files : Derive(f)
    \/ \E f \in Files : CheckDup(f)
    \/ \E f \in Files : WriteToFile(f)
    \/ Finish
    \/ Unwind
    \/ PrintStatus
    \/ Wait
    \/ Complete

Spec == Init /\ [][Next]_vars

\* Scheduling: the worker threads of the pool, the spawned tasks and the
\* main thread are threads of the operating system, which does not stop all
\* of them for ever: while some thread can take its next step, a step is
\* eventually taken. (Every step moves its thread forward, so this is all
\* the properties below need; fairness to each thread implies it.)
Fairness == WF_vars(Next)

FairSpec == Spec /\ Fairness

(***************************************************************************)
(* dicom_anon_date_time, lines 130-163, on one record. A record is a       *)
(* function from the tags it holds to [vr, value]; a value is the string   *)
(* the element's to_str gives.                                             *)
(***************************************************************************)

\* Lines 134-135: the two literals, as their characters' digits.
time_str == <<0, 9, 0, 0, 0, 0>>
date_str == <<1, 9, 0, 0, 0, 1, 0, 1>>

\* str::parse of a string of decimal digits.
RECURSIVE ParseDigits(_)
ParseDigits(ds) ==
    IF ds = <<>> THEN 0 ELSE 10 * ParseDigits(SubSeq(ds, 1, Len(ds) - 1)) + ds[Len(ds)]

\* Line 136: NaiveDate::parse_from_str(&date_str, "%Y%m%d"), then DicomDate.
d_date ==
    [year |-> ParseDigits(SubSeq(date_str, 1, 4)),
     month |-> ParseDigits(SubSeq(date_str, 5, 6)),
     day |-> ParseDigits(SubSeq(date_str, 7, 8))]

\* Lines 138-141: time_str[0..2], [2..4], [4..6] parsed, DicomTime::from_hms.
d_time ==
    [hr |-> ParseDigits(SubSeq(time_str, 1, 2)),
     min |-> ParseDigits(SubSeq(time_str, 3, 4)),
     sec |-> ParseDigits(SubSeq(time_str, 5, 6))]

\* A number below 100 in two digits, as the DICOM encodings write it.
TwoDigits(n) == IF n < 10 THEN "0" \o ToString(n) ELSE ToString(n)

\* A year in four digits.
FourDigits(n) ==
    IF n < 10 THEN "000" \o ToString(n)
    ELSE IF n < 100 THEN "00" \o ToString(n)
    ELSE IF n < 1000 THEN "0" \o ToString(n)
    ELSE ToString(n)

\* Line 143: dicom_value!(Date, d_date), as the string YYYYMMDD.
dicom_date_data ==
    FourDigits(d_date.year) \o TwoDigits(d_date.month) \o TwoDigits(d_date.day)

\* Line 144: dicom_value!(Time, d_time), as the string HHMMSS.
dicom_time_data ==
    TwoDigits(d_time.hr) \o TwoDigits(d_time.min) \o TwoDigits(d_time.sec)

\* Lines 145-146: DicomDateTime::from_date_and_time(d_date, d_time).
dicom_date_time == dicom_date_data \o dicom_time_data

\* The tags of the input records and their value representations.
TagVR ==
    [StudyDate |-> "DA", PatientBirthDate |-> "DA", StudyTime |-> "TM",
     AcquisitionDateTime |-> "DT", PatientAge |-> "AS", PatientSex |-> "CS"]

\* The values an input record may hold for a tag.
InputValues(tag) ==
    CASE TagVR[tag] = "DA" -> {"20200315"}
      [] TagVR[tag] = "TM" -> {"143000"}
      [] TagVR[tag] = "DT" -> {"20200315143000"}
      [] TagVR[tag] = "AS" -> {"045Y", "099Y"}
      [] TagVR[tag] = "CS" -> {"M", "O"}

\* The input records: any subset of the tags, any of the values for each.
InputRecords ==
    UNION {[tags -> {"20200315", "143000", "20200315143000", "045Y", "099Y",
                     "M", "O"}] : tags \in SUBSET DOMAIN TagVR}

WellFormed(rec) == \A t \in DOMAIN rec : rec[t] \in InputValues(t)

\* mask_all_vr of dcmrig_rs: the record with the value of every element of
\* representation vr replaced by value.
mask_all_vr(obj, vr, value) ==
    [t \in DOMAIN obj |-> IF obj[t].vr = vr THEN [vr |-> vr, value |-> value]
                          ELSE obj[t]]

\* InMemDicomObject::put: the element of the tag is added or replaced.
put(obj, tag, vr, value) ==
    [t \in DOMAIN obj \cup {tag} |->
        IF t = tag THEN [vr |-> vr, value |-> value] ELSE obj[t]]

\* A call of dicom_anon_date_time on some record.
MaskInit ==
    /\ RunInit
    /\ mask_pc = "da"
    /\ \E rec \in {r \in InputRecords : WellFormed(r)} :
          dcm_obj = [t \in DOMAIN rec |-> [vr |-> TagVR[t], value |-> rec[t]]]
    /\ date_deleted_dcm_obj = NoRecord
    /\ time_deleted_dcm_obj = NoRecord
    /\ datetime_deleted_dcm_obj = NoRecord

\* Line 148: mask_all_vr(dcm_obj.clone(), VR::DA, dicom_date_data)?.
MaskDA ==
    /\ mask_pc = "da"
    /\ \/ /\ date_deleted_dcm_obj' = mask_all_vr(dcm_obj, "DA", dicom_date_data)
          /\ mask_pc' = "tm"
       \/ /\ mask_pc' = "err"
          /\ UNCHANGED date_deleted_dcm_obj
    /\ UNCHANGED <<runVars, dcm_obj, time_deleted_dcm_obj,
                   datetime_deleted_dcm_obj>>

\* The time pass is given the function's argument instead of the output of
\* the date pass.
MaskTM_FromArgument ==
    /\ mask_pc = "tm"
    /\ \/ /\ time_deleted_dcm_obj' = mask_all_vr(dcm_obj, "TM", dicom_time_data)
          /\ mask_pc' = "dt"
       \/ /\ mask_pc' = "err"
          /\ UNCHANGED time_deleted_dcm_obj
    /\ UNCHANGED <<runVars, dcm_obj, date_deleted_dcm_obj,
                   datetime_deleted_dcm_obj>>

\* Line 149: mask_all_vr(date_deleted_dcm_obj.clone(), VR::TM, dicom_time_data)?.
MaskTM ==
    /\ mask_pc = "tm"
    /\ \/ /\ time_deleted_dcm_obj' =
                mask_all_vr(date_deleted_dcm_obj, "TM", dicom_time_data)
          /\ mask_pc' = "dt"
       \/ /\ mask_pc' = "err"
          /\ UNCHANGED time_deleted_dcm_obj
    /\ UNCHANGED <<runVars, dcm_obj, date_deleted_dcm_obj,
                   datetime_deleted_dcm_obj>>

\* Lines 150-151: mask_all_vr(time_deleted_dcm_obj.clone(), VR::DT, dicom_date_time)?.
MaskDT ==
    /\ mask_pc = "dt"
    /\ \/ /\ datetime_deleted_dcm_obj' =
                mask_all_vr(time_deleted_dcm_obj, "DT", dicom_date_time)
          /\ mask_pc' = "age"
       \/ /\ mask_pc' = "err"
          /\ UNCHANGED datetime_deleted_dcm_obj
    /\ UNCHANGED <<runVars, dcm_obj, date_deleted_dcm_obj,
                   time_deleted_dcm_obj>>

\* Lines 152-156: put of PATIENT_AGE, VR::AS, "099Y".
PutAge ==
    /\ mask_pc = "age"
    /\ datetime_deleted_dcm_obj' =
          put(datetime_deleted_dcm_obj, "PatientAge", "AS", "099Y")
    /\ mask_pc' = "sex"
    /\ UNCHANGED <<runVars, dcm_obj, date_deleted_dcm_obj,
                   time_deleted_dcm_obj>>

\* Lines 157-162: put of PATIENT_SEX, VR::CS, "O"; Ok(datetime_deleted_dcm_obj).
PutSex ==
    /\ mask_pc = "sex"
    /\ datetime_deleted_dcm_obj' =
          put(datetime_deleted_dcm_obj, "PatientSex", "CS", "O")
    /\ mask_pc' = "ok"
    /\ UNCHANGED <<runVars, dcm_obj, date_deleted_dcm_obj,
                   time_deleted_dcm_obj>>

MaskNext == MaskDA \/ MaskTM \/ MaskDT \/ PutAge \/ PutSex

MaskSpec == MaskInit /\ [][MaskNext]_vars

(***************************************************************************)
(* Properties.                                                             *)
(***************************************************************************)

\* Files whose deferred write has finished.
Written == {f \in Files : task[f] = "finished"}

\* Files whose pipeline invocation returned Ok.
Succeeded == {f \in Files : result[f] = "ok"}

\* Files that have been given a pseudonymous code.
Coded == {f \in Files : patient_anon_id[f] # NoValue}

\* The parallel loop has returned normally to the main thread.
DispatchOver ==
    mainPc \in {"report", "wait", "complete", "returned_ok", "returned_err"}

\* C1. Consistency: under every interleaving, files with the same PatientID
\* get the same pseudonymous code, that code is the one the map holds for the
\* identifier, and gen_id was called once per identifier in the map (no two
\* workers both saw a miss for one identifier and minted a code each).
C1_Consistency ==
    /\ \A f, g \in Coded :
          patient_id[f] = patient_id[g] => patient_anon_id[f] = patient_anon_id[g]
    /\ \A f \in Coded :
          /\ patient_id[f] \in DOMAIN anon_id_tracker
          /\ anon_id_tracker[patient_id[f]] = patient_anon_id[f]
    /\ nextId = Cardinality(DOMAIN anon_id_tracker)

\* Two files of the same patient were both written and the run returned
\* with one map entry.
C1_Witness ==
    /\ mainPc = "returned_ok"
    /\ \E f, g \in Written :
          /\ f # g
          /\ patient_id[f] = "P001"
          /\ patient_id[g] = "P001"
    /\ DOMAIN anon_id_tracker = {"P001"}

\* C2. Completion barrier: dicom_anon neither logs completion nor returns Ok
\* while a scheduled write is unfinished, and a pipeline invocation or its
\* write task holds a WaitGroup clone from the call until the write is done.
C2_CompletionBarrier ==
    /\ mainPc \in {"complete", "returned_ok"} =>
          \A f \in Files : task[f] \in {"none", "finished"}
    /\ \A f \in Files :
          (\/ task[f] \in {"derive", "check", "write"}
           \/ pc[f] \in {"extract", "map_lock", "map_insert", "rewrite", "mask",
                         "sanitize", "spawn"})
          => f \in wg

\* The run returned Ok after the main thread had to go through the barrier
\* for the writes of all files.
C2_Witness ==
    /\ mainPc = "returned_ok"
    /\ Written = Files

\* C3. Final report: print_status is not given the counters before every
\* scheduled write has finished.
C3_ReportAfterWrites ==
    reported # <<>> => \A f \in Files : task[f] \in {"none", "finished"}

\* C4. Outcome partition: when dicom_anon has returned Ok every file is in
\* exactly one of Copied, Quarantined, Written.
C4_OutcomePartition ==
    mainPc = "returned_ok" =>
       \A f \in Files :
          Cardinality({s \in {copied, quarantined, Written} : f \in s}) = 1

\* C5. A failure in one of the steps 2 to 8 is returned to the dispatcher as
\* an Err of the pipeline, and once the dispatcher is done with the file it
\* is quarantined and counted.
C5_FailuresQuarantined ==
    \A f \in Files :
       (result[f] = "err" \/ task[f] \in {"panicked_name", "panicked_path"}) =>
          /\ result[f] = "err"
          /\ task[f] = "none"
          /\ pc[f] = "done" => (f \in quarantined /\ failed_case >= 1)

\* C6. Missing identifier: a record whose PatientID is absent or empty fails
\* before the map is consulted: the invocation returns Err, never takes the
\* map lock, inserts nothing and schedules no write.
C6_MissingIdentifier ==
    \A f \in Files :
       patient_id[f] \in {Absent, ""} =>
          /\ result[f] = "err"
          /\ mapLock # f
          /\ patient_id[f] \notin DOMAIN anon_id_tracker
          /\ task[f] = "none"

\* C7. Isolation: no failure of one file aborts the process, unwinds
\* dicom_anon or keeps another file from being visited.
C7_Isolation ==
    /\ ~aborted
    /\ mainPc # "unwound"
    /\ \A f \in Files : pc[f] # "skipped"

\* C8. No silent overwrite: two finished writes never used the same final path.
C8_NoSilentOverwrite ==
    \A f, g \in Written : f # g => full_path[f] # full_path[g]

\* C9. No partial output: a write task exists only for a file whose pipeline
\* returned Ok; a file whose pipeline returned Err has no write task and no
\* output path, and no file is both quarantined and given a write task.
C9_NoPartialOutput ==
    \A f \in Files :
       /\ task[f] # "none" => result[f] = "ok"
       /\ result[f] = "err" => (task[f] = "none" /\ full_path[f] = NoPath)
       /\ ~(f \in quarantined /\ task[f] # "none")

\* One file was quarantined after its pipeline failed past the map lookup,
\* another one was written.
C9_Witness ==
    \E f, g \in Files :
       /\ f \in quarantined
       /\ patient_anon_id[f] # NoValue
       /\ task[f] = "none"
       /\ g \in Written

C11_MapMonotonic ==
    [][\A k \in DOMAIN anon_id_tracker :
          /\ k \in DOMAIN anon_id_tracker'
          /\ anon_id_tracker'[k] = anon_id_tracker[k]]_vars

\* A second file of a patient went through the lookup after the first one's
\* insert: both hold the code of the one gen_id call.
C11_Witness ==
    /\ nextId = 1
    /\ \E f, g \in Coded :
          /\ f # g
          /\ patient_id[f] = patient_id[g]
          /\ anon_id_tracker[patient_id[f]] = patient_anon_id[g]

\* C12. Uniqueness: with gen_id never repeating a value, two distinct
\* identifiers in the map have different codes.
C12_Uniqueness ==
    \A j, k \in DOMAIN anon_id_tracker :
       j # k => anon_id_tracker[j] # anon_id_tracker[k]

\* Two files with different identifiers were both given a code.
C12_Witness ==
    \E f, g \in Coded :
       /\ patient_id[f] # patient_id[g]
       /\ patient_anon_id[f] # patient_anon_id[g]
       /\ Cardinality(DOMAIN anon_id_tracker) = 2

\* The values gen_id returns within the bound.
Tokens == {gen_id(n) : n \in 0..(NumFiles - 1)}

\* C13. Prefix formatting: every code in the map is prefix, "_" and a
\* generated token when the prefix is non-empty, and the bare token (no
\* separator, nothing in front) when the prefix is empty.
C13_PrefixFormatting ==
    \A k \in DOMAIN anon_id_tracker :
       /\ anon_prefix = "STUDY1" =>
             anon_id_tracker[k] \in {"STUDY1_" \o t : t \in Tokens}
       /\ anon_prefix = "" => anon_id_tracker[k] \in Tokens

\* With the empty prefix an identifier was given the bare first token.
C13_Witness ==
    /\ anon_prefix = ""
    /\ \E k \in DOMAIN anon_id_tracker : anon_id_tracker[k] = "id0"

\* Files open_file failed on: in the else branch, or done without the
\* pipeline having returned anything.
NonParsed ==
    {f \in Files : \/ pc[f] \in {"nd_lock", "nd_copy"}
                   \/ pc[f] = "done" /\ result[f] = "none"}

\* C14. Passthrough routing: a file that fails to parse is counted once in
\* non_dcm_cases, never enters the pipeline (no identifier, no code, no
\* WaitGroup clone, no Err routed to quarantine) and has no write task; the
\* steps of its else branch leave failed_case and the map unchanged.
C14_PassthroughRouting ==
    /\ [](/\ \A f \in NonParsed :
                /\ patient_id[f] = NoValue
                /\ patient_anon_id[f] = NoValue
                /\ task[f] = "none"
                /\ f \notin wg
                /\ f \notin quarantined
          /\ non_dcm_cases = Cardinality({f \in NonParsed : pc[f] # "nd_lock"}))
    /\ [][\A f \in Files :
             (pc[f] \in {"nd_lock", "nd_copy"} /\ pc'[f] # pc[f]) =>
                /\ failed_case' = failed_case
                /\ anon_id_tracker' = anon_id_tracker
                /\ non_dcm_cases' =
                      IF pc[f] = "nd_lock" THEN non_dcm_cases + 1 ELSE non_dcm_cases]_vars

\* A non-parseable file is done and counted once while another file's
\* pipeline failure was counted in failed_case and a code is in the map.
C14_Witness ==
    /\ \E f \in NonParsed : pc[f] = "done" /\ f \in copied
    /\ non_dcm_cases = 1
    /\ failed_case = 1
    /\ DOMAIN anon_id_tracker # {}

\* C16. Minimal Identity Map critical section: no worker holds the map lock
\* while it is at the identifier rewrite, the masking, the tag sanitizing or
\* the scheduling of the write.
C16_MinimalMapSection ==
    \A f \in Files :
       pc[f] \in {"rewrite", "mask", "sanitize", "spawn"} => mapLock # f

\* C17. Minimal counter critical sections: no counter lock is held while the
\* quarantine copy or the passthrough copy is running.
C17_MinimalCounterSections ==
    \A f \in Files :
       /\ pc[f] = "fc_copy" => failedLock # f
       /\ pc[f] = "nd_copy" => nonDcmLock # f

HeldBy(f) ==
    {l \in {"map", "failed", "non_dcm"} :
        \/ l = "map" /\ mapLock = f
        \/ l = "failed" /\ failedLock = f
        \/ l = "non_dcm" /\ nonDcmLock = f}

\* C20. Deadlock freedom: no worker holds two locks, the map lock is not
\* held any more when the worker is in the dispatcher's error closure, and a
\* worker that holds a lock is not waiting for a lock, so no worker waits
\* for a lock whose holder waits too.
C20_DeadlockFreedom ==
    \A f \in Files :
       /\ Cardinality(HeldBy(f)) <= 1
       /\ pc[f] \in {"fc_lock", "fc_copy"} => mapLock # f
       /\ HeldBy(f) # {} => pc[f] \notin {"map_lock", "fc_lock", "nd_lock"}

\* Two workers hold one lock each: one the map lock, the other the
\* failed_case lock during its quarantine copy.
C20_Witness ==
    \E f, g \in Files :
       /\ f # g
       /\ mapLock = f
       /\ failedLock = g
       /\ pc[g] = "fc_copy"

\* dicom_anon has ended: it returned, or a panic of a worker unwound it.
RunEnded == mainPc \in {"returned_ok", "returned_err", "unwound"}

\* C19. Barrier termination: under fair scheduling every WaitGroup clone
\* handed to a pipeline invocation is released (unless a failing write task
\* aborts the process first), so a main thread that reaches wg.wait() gets
\* past it, and every run ends.
C19_BarrierTermination ==
    /\ \A f \in Files : (f \in wg) ~> (f \notin wg \/ aborted)
    /\ (mainPc = "wait") ~> (mainPc = "complete" \/ aborted)
    /\ <>(RunEnded \/ aborted)

\* The run returned Ok through the barrier although every pipeline failed.
C19_Witness ==
    /\ mainPc = "returned_ok"
    /\ \A f \in Files : result[f] = "err"
    /\ wg = {}

\* C15. Masking completeness: in the record dicom_anon_date_time returns,
\* every DA element of the input holds 19000101, every TM element 090000,
\* every DT element 19000101090000, PatientAge is 099Y and PatientSex is O
\* whether the input had them or not, and no element was lost.
C15_MaskingComplete ==
    mask_pc = "ok" =>
       /\ DOMAIN datetime_deleted_dcm_obj =
             DOMAIN dcm_obj \cup {"PatientAge", "PatientSex"}
       /\ \A t \in DOMAIN dcm_obj :
             /\ dcm_obj[t].vr = "DA" => datetime_deleted_dcm_obj[t].value = "19000101"
             /\ dcm_obj[t].vr = "TM" => datetime_deleted_dcm_obj[t].value = "090000"
             /\ dcm_obj[t].vr = "DT" =>
                   datetime_deleted_dcm_obj[t].value = "19000101090000"
       /\ datetime_deleted_dcm_obj["PatientAge"] = [vr |-> "AS", value |-> "099Y"]
       /\ datetime_deleted_dcm_obj["PatientSex"] = [vr |-> "CS", value |-> "O"]

\* A record with two dates, a time and a date-time, with an age to
\* overwrite and no sex element, was masked.
C15_Witness ==
    /\ mask_pc = "ok"
    /\ DOMAIN dcm_obj = {"StudyDate", "PatientBirthDate", "StudyTime",
                         "AcquisitionDateTime", "PatientAge"}
    /\ dcm_obj["PatientAge"].value = "045Y"
    /\ dcm_obj["StudyDate"].value = "20200315"
    /\ datetime_deleted_dcm_obj["StudyDate"].value = "19000101"

====
